---- MODULE Spec2Model ----
(***************************************************************************)
(* Model of python/src/filesystem.rs: the pyarrow filesystem handler over  *)
(* an object store (DeltaFileSystemHandler), its seekable read handle      *)
(* (ObjectInputFile) and its multipart write handle (ObjectOutputStream).  *)
(*                                                                         *)
(* Five specifications share the variables below:                          *)
(*   SpecRead     one ObjectInputFile and the calls made on it             *)
(*   SpecWrite    one ObjectOutputStream, its writer and multipart session *)
(*   SpecStat     DeltaFileSystemHandler::get_file_info over a fixed store *)
(*   SpecHandler  get_file_info_selector and normalize_path                *)
(*   SpecAdapter  WrappedPyArrowStore over a foreign pyarrow filesystem    *)
(* A specification leaves the variables of the others at their idle        *)
(* values.                                                                 *)
(*                                                                         *)
(* op, result and calls describe the last call made by the host: its name  *)
(* and arguments together with the handle's fields when it was entered,    *)
(* what it returned, and the backend calls it issued, in order.            *)
(*                                                                         *)
(* Integers are i64 in the source.  The model keeps every value far from   *)
(* the i64 limits, so i64 wrap-around is not modelled; the usize casts of  *)
(* ObjectInputFile::read are modelled exactly (see UsizeLess).             *)
(***************************************************************************)
EXTENDS Integers, Sequences, FiniteSets, TLC

VARIABLES
    \* ObjectInputFile
    content_length, in_pos, in_closed,
    \* build profile: are integer overflow checks compiled in (debug) or not
    overflow_checks,
    \* ObjectOutputStream, its writer and the backend's multipart session
    out_path, multipart_id, out_pos, out_closed,
    session, parts, store, written, failed,
    \* the backend as seen by get_file_info
    fs,
    \* WrappedPyArrowStore::get: the foreign input stream, whether a foreign
    \* read is running inside the poll closure, the runtime's worker threads
    \* and the progress of an unrelated task of the runtime
    in_stream, reading, workers, other_steps,
    \* the last call
    op, result, calls

vars == <<content_length, in_pos, in_closed, overflow_checks,
          out_path, multipart_id, out_pos, out_closed,
          session, parts, store, written, failed, fs,
          in_stream, reading, workers, other_steps, op, result, calls>>

inVars == <<content_length, in_pos, in_closed, overflow_checks>>
outVars == <<out_path, multipart_id, out_pos, out_closed,
             session, parts, store, written, failed>>
statVars == <<fs>>
adVars == <<in_stream, reading, workers, other_steps>>

----------------------------------------------------------------------------
(* Bounds of the model. *)

\* largest content length of the object behind the read handle
MaxLen == 2
\* seek offsets are drawn from -MaxOff..MaxOff
MaxOff == 3
\* the cursor is explored up to MaxPos and down to -MaxNeg
MaxPos == 4
MaxNeg == 2

Min(a, b) == IF a <= b THEN a ELSE b

\* the object's bytes: the byte at offset i is i (distinct, so that a range
\* read at the wrong place is seen)
Body(n) == [i \in 1..n |-> i - 1]

----------------------------------------------------------------------------
(* Return values.  kind is "Ok" or the error raised. *)

Ok(num, bytes) == [kind |-> "Ok", num |-> num, bytes |-> bytes]
Err(kind) == [kind |-> kind, num |-> 0, bytes |-> <<>>]
OkUnit == Ok(0, <<>>)

\* PyIOError("Operation on closed stream")
ClosedStreamError == Err("ClosedStream")
\* PyIOError("Cannot seek for negative position." / "... past end of file.")
InvalidSeek == Err("InvalidSeek")
\* PyValueError("'whence' must be between  0 <= whence <= 2.")
WhenceError == Err("ValueError")
NotImplementedError == Err("NotImplemented")
\* an ObjectStoreError converted by PyDeltaTableError::from_object_store
ObjectStoreErr == Err("ObjectStore")
\* a std::io::Error converted by PyDeltaTableError::from_io
IoErr == Err("Io")
\* a Rust panic, surfaced to the host as pyo3's PanicException
Panic == Err("Panic")

----------------------------------------------------------------------------
(* Idle values of the variables a specification does not use. *)

InIdle ==
    /\ content_length = 0
    /\ in_pos = 0
    /\ in_closed = FALSE
    /\ overflow_checks = FALSE

OutIdle ==
    /\ out_path = "none"
    /\ multipart_id = 0
    /\ out_pos = 0
    /\ out_closed = FALSE
    /\ session = "none"
    /\ parts = <<>>
    /\ store = <<>>
    /\ written = <<>>
    /\ failed = FALSE

StatIdle == fs = <<>>
NoStream == [open |-> FALSE, path |-> "", len |-> 0, pos |-> 0]
AdIdle ==
    /\ in_stream = NoStream
    /\ reading = FALSE
    /\ workers = 1
    /\ other_steps = 0

----------------------------------------------------------------------------
(* ObjectInputFile *)

InOp(name, offset, whence, has_n, n) ==
    [name |-> name, offset |-> offset, whence |-> whence,
     has_n |-> has_n, n |-> n,
     pre_pos |-> in_pos, pre_closed |-> in_closed, pre_len |-> content_length]

\* ObjectInputFile::try_new: content_length is the size head() reports,
\* pos = 0, closed = false.
InitRead ==
    /\ content_length \in 0..MaxLen
    /\ in_pos = 0
    /\ in_closed = FALSE
    /\ overflow_checks \in BOOLEAN
    /\ OutIdle
    /\ StatIdle
    /\ AdIdle
    /\ op = InOp("try_new", 0, 0, FALSE, 0)
    /\ result = OkUnit
    /\ calls = <<>>

\* check_closed without its test of the flag
in_check_closed_never(closed) == FALSE

\* check_closed: TRUE when it returns the error
in_check_closed(closed) == closed

\* check_position: TRUE when it returns the error
in_check_position(position, len) == position < 0 \/ position > len

InReturn(name, offset, whence, has_n, n, res) ==
    /\ op' = InOp(name, offset, whence, has_n, n)
    /\ result' = res
    /\ UNCHANGED <<outVars, statVars, adVars>>

\* The position seek stores for a valid whence.
SeekPos(offset, whence) ==
    CASE whence = 0 -> offset
      [] whence = 1 -> in_pos + offset
      [] whence = 2 -> content_length + offset

InSeek(offset, whence) ==
    /\ calls' = <<>>
    /\ IF in_check_closed(in_closed)
       THEN /\ InReturn("seek", offset, whence, FALSE, 0, ClosedStreamError)
            /\ UNCHANGED inVars
       ELSE IF in_check_position(offset, content_length)
       THEN /\ InReturn("seek", offset, whence, FALSE, 0, InvalidSeek)
            /\ UNCHANGED inVars
       ELSE IF whence \in 0..2
       THEN /\ SeekPos(offset, whence) <= MaxPos
            /\ in_pos' = SeekPos(offset, whence)
            /\ InReturn("seek", offset, whence, FALSE, 0, Ok(in_pos', <<>>))
            /\ UNCHANGED <<content_length, in_closed, overflow_checks>>
       ELSE /\ InReturn("seek", offset, whence, FALSE, 0, WhenceError)
            /\ UNCHANGED inVars

\* (a as usize) < (b as usize) for i64 values a and b: a negative value casts
\* to a value above every non-negative one, and the cast keeps the order
\* within each sign.
UsizeLess(a, b) ==
    IF (a >= 0) = (b >= 0) THEN a < b ELSE b < 0

\* The end of the range read computes, before the cast.
ReadEnd(has_n, n) ==
    IF has_n THEN Min(in_pos + n, content_length) ELSE content_length

\* store.get_range on the object: the bytes at [start, end) when the range
\* lies in the object; the set holds every outcome the backend can give.
GetRange(start, end) ==
    IF 0 <= start /\ start <= end /\ end <= content_length
    THEN {Ok(0, SubSeq(Body(content_length), start + 1, end)), ObjectStoreErr}
    ELSE {ObjectStoreErr, Panic}

InRead(has_n, n) ==
    IF in_check_closed(in_closed)
    THEN /\ InReturn("read", 0, 0, has_n, n, ClosedStreamError)
         /\ calls' = <<>>
         /\ UNCHANGED inVars
    ELSE LET start == in_pos
             end == ReadEnd(has_n, n)
             \* (range.end - range.start) as i64, when the subtraction wraps
             nbytes == end - start
         IN IF overflow_checks /\ UsizeLess(end, start)
            THEN \* usize subtraction overflow panics before pos is touched
                 /\ InReturn("read", 0, 0, has_n, n, Panic)
                 /\ calls' = <<>>
                 /\ UNCHANGED inVars
            ELSE /\ in_pos + nbytes >= -MaxNeg
                 /\ in_pos' = in_pos + nbytes
                 /\ UNCHANGED <<content_length, in_closed, overflow_checks>>
                 /\ IF nbytes > 0
                    THEN /\ calls' = <<[fn |-> "get_range", start |-> start,
                                         end |-> end]>>
                         /\ \E r \in GetRange(start, end) :
                                InReturn("read", 0, 0, has_n, n, r)
                    ELSE /\ calls' = <<>>
                         /\ InReturn("read", 0, 0, has_n, n, Ok(0, <<>>))

InTell ==
    /\ calls' = <<>>
    /\ UNCHANGED inVars
    /\ IF in_check_closed(in_closed)
       THEN InReturn("tell", 0, 0, FALSE, 0, ClosedStreamError)
       ELSE InReturn("tell", 0, 0, FALSE, 0, Ok(in_pos, <<>>))

InSize ==
    /\ calls' = <<>>
    /\ UNCHANGED inVars
    /\ IF in_check_closed(in_closed)
       THEN InReturn("size", 0, 0, FALSE, 0, ClosedStreamError)
       ELSE InReturn("size", 0, 0, FALSE, 0, Ok(content_length, <<>>))

InClose ==
    /\ calls' = <<>>
    /\ in_closed' = TRUE
    /\ UNCHANGED <<content_length, in_pos, overflow_checks>>
    /\ InReturn("close", 0, 0, FALSE, 0, OkUnit)

\* fileno, truncate, readline, readlines
InUnsupportedOps == {"fileno", "truncate", "readline", "readlines"}

InUnsupported(name) ==
    /\ calls' = <<>>
    /\ UNCHANGED inVars
    /\ InReturn(name, 0, 0, FALSE, 0, NotImplementedError)

\* isatty, readable, seekable, writable: num is 1 for true, 0 for false
InQueryOps == {"isatty", "readable", "seekable", "writable"}

InQueryValue(name) == IF name \in {"readable", "seekable"} THEN 1 ELSE 0

InQuery(name) ==
    /\ calls' = <<>>
    /\ UNCHANGED inVars
    /\ InReturn(name, 0, 0, FALSE, 0, Ok(InQueryValue(name), <<>>))

NextRead ==
    \/ \E offset \in -MaxOff..MaxOff, whence \in 0..3 : InSeek(offset, whence)
    \/ \E n \in -1..(MaxLen + 1) : InRead(TRUE, n)
    \/ InRead(FALSE, 0)
    \/ InTell
    \/ InSize
    \/ InClose
    \/ \E name \in InUnsupportedOps : InUnsupported(name)
    \/ \E name \in InQueryOps : InQuery(name)

SpecRead == InitRead /\ [][NextRead]_vars

----------------------------------------------------------------------------
(* ObjectOutputStream, the writer put_multipart returned and the backend's  *)
(* multipart session behind it.                                             *)
(*                                                                          *)
(* session is the backend's state of the upload: "open", "committed" (the   *)
(* writer's shutdown completed it) or "aborted" (abort_multipart removed    *)
(* it).  parts are the bytes the session has taken, store maps each path    *)
(* to the object committed there.  written and failed are history: the      *)
(* bytes of the writes that returned Ok, and whether a write, flush or      *)
(* close has failed at the backend.                                         *)

\* the paths and upload ids a stream is opened with
OutPaths == {"x", "y"}
MultipartIds == {"u1", "u2"}
\* the byte values written
Bytes == {1, 2}
\* the longest argument of one write, and the most bytes a session takes
MaxData == 2
MaxBody == 3

\* every byte string of length at most n
SeqsUpTo(n) == UNION {[1..k -> Bytes] : k \in 0..n}

NoObject == [exists |-> FALSE, body |-> <<>>]
Object(body) == [exists |-> TRUE, body |-> body]

OutOp(name, data) ==
    [name |-> name, data |-> data, pre_closed |-> out_closed,
     pre_failed |-> failed, pre_session |-> session, pre_store |-> store]

\* ObjectOutputStream::try_new after put_multipart returned an upload id and
\* a writer: pos = 0, closed = false; nothing is stored at any path.
InitWrite ==
    /\ out_path \in OutPaths
    /\ multipart_id \in MultipartIds
    /\ out_pos = 0
    /\ out_closed = FALSE
    /\ session = "open"
    /\ parts = <<>>
    /\ store = [p \in OutPaths |-> NoObject]
    /\ written = <<>>
    /\ failed = FALSE
    /\ InIdle
    /\ StatIdle
    /\ AdIdle
    /\ op = OutOp("try_new", <<>>)
    /\ result = OkUnit
    /\ calls = <<>>

\* check_closed without its test of the flag
out_check_closed_never(closed) == FALSE

\* check_closed: TRUE when it returns the error
out_check_closed(closed) == closed

\* One backend call as the stream issued it.
Call(fn, ok, data) ==
    [fn |-> fn, ok |-> ok, path |-> out_path, id |-> multipart_id,
     data |-> data]

\* writer.write_all(&data): the outcomes of the writer.  On an open session
\* it takes all of data, or fails having taken a proper prefix of it; once
\* the session is gone it buffers or fails and the bytes go nowhere.  An
\* empty buffer is written without polling the writer.
WriteAll(data) ==
    IF Len(data) = 0 THEN {[ok |-> TRUE, parts |-> parts]}
    ELSE IF session = "open"
    THEN {[ok |-> TRUE, parts |-> parts \o data]}
         \cup {[ok |-> FALSE, parts |-> parts \o SubSeq(data, 1, k)] :
                  k \in 0..(Len(data) - 1)}
    ELSE {[ok |-> TRUE, parts |-> parts], [ok |-> FALSE, parts |-> parts]}

\* writer.flush()
Flush == {TRUE, FALSE}

\* writer.shutdown(): completes an open session, which stores its bytes at
\* the path, or fails and leaves it open; a completed session may answer
\* either way; an aborted one cannot be completed.
Shutdown ==
    CASE session = "open" ->
            {[ok |-> TRUE, session |-> "committed",
              store |-> [store EXCEPT ![out_path] = Object(parts)]],
             [ok |-> FALSE, session |-> session, store |-> store]}
      [] session = "committed" ->
            {[ok |-> TRUE, session |-> session, store |-> store],
             [ok |-> FALSE, session |-> session, store |-> store]}
      [] OTHER ->
            {[ok |-> FALSE, session |-> session, store |-> store]}

\* store.abort_multipart(&path, &multipart_id) when the session is in state
\* s: removes an open session or fails; there is nothing to remove otherwise
\* and the backend may answer either way.
AbortMultipart(s) ==
    IF s = "open"
    THEN {[ok |-> TRUE, session |-> "aborted"], [ok |-> FALSE, session |-> s]}
    ELSE {[ok |-> TRUE, session |-> s], [ok |-> FALSE, session |-> s]}

\* The Err arm without its call of abort_multipart.
AbortAndReturn_NoAbort(first, s) ==
    /\ session' = s
    /\ calls' = <<first>>
    /\ result' = IoErr
    /\ failed' = TRUE

\* The Err arm shared by write, flush and close: abort_multipart is awaited
\* and its error returned by `?`; otherwise the writer's error is returned.
AbortAndReturn(first, s) ==
    \E a \in AbortMultipart(s) :
        /\ session' = a.session
        /\ calls' = <<first, Call("abort_multipart", a.ok, <<>>)>>
        /\ result' = IF a.ok THEN IoErr ELSE ObjectStoreErr
        /\ failed' = TRUE

\* The bytes write hands to the writer, short of the last one.
WriteBuf_DropLast(data) == SubSeq(data, 1, Len(data) - 1)

\* The bytes write hands to the writer: write_all(&data).
WriteBuf(data) == data

OutWrite(data) ==
    /\ op' = OutOp("write", data)
    /\ UNCHANGED <<inVars, statVars, adVars, out_path, multipart_id, out_pos,
                   out_closed, store>>
    /\ IF out_check_closed(out_closed)
       THEN /\ result' = ClosedStreamError
            /\ calls' = <<>>
            /\ UNCHANGED <<session, parts, written, failed>>
       ELSE /\ Len(parts) + Len(data) <= MaxBody
            /\ Len(written) + Len(data) <= MaxBody
            /\ \E w \in WriteAll(WriteBuf(data)) :
                /\ parts' = w.parts
                /\ IF w.ok
                   THEN /\ result' = Ok(Len(data), <<>>)
                        /\ calls' = <<Call("write_all", TRUE, WriteBuf(data))>>
                        /\ written' = written \o data
                        /\ UNCHANGED <<session, failed>>
                   ELSE /\ AbortAndReturn(
                               Call("write_all", FALSE, WriteBuf(data)), session)
                        /\ UNCHANGED written

OutFlush ==
    /\ op' = OutOp("flush", <<>>)
    /\ UNCHANGED <<inVars, statVars, adVars, out_path, multipart_id, out_pos,
                   out_closed, store, parts, written>>
    /\ \E ok \in Flush :
        IF ok
        THEN /\ result' = OkUnit
             /\ calls' = <<Call("flush", TRUE, <<>>)>>
             /\ UNCHANGED <<session, failed>>
        ELSE AbortAndReturn(Call("flush", FALSE, <<>>), session)

OutClose ==
    /\ op' = OutOp("close", <<>>)
    /\ out_closed' = TRUE
    /\ UNCHANGED <<inVars, statVars, adVars, out_path, multipart_id, out_pos,
                   parts, written>>
    /\ \E c \in Shutdown :
        /\ store' = c.store
        /\ IF c.ok
           THEN /\ result' = OkUnit
                /\ calls' = <<Call("shutdown", TRUE, <<>>)>>
                /\ session' = c.session
                /\ UNCHANGED failed
           ELSE AbortAndReturn(Call("shutdown", FALSE, <<>>), c.session)

\* seek(_offset, _whence) and read(_nbytes): the arguments are not used
OutUnsupported(name) ==
    /\ op' = OutOp(name, <<>>)
    /\ calls' = <<>>
    /\ result' = IF out_check_closed(out_closed) THEN ClosedStreamError
                 ELSE NotImplementedError
    /\ UNCHANGED <<inVars, statVars, adVars, outVars>>

OutSeek(offset, whence) == OutUnsupported("seek")

OutRead(has_n, n) == OutUnsupported("read")

\* tell: check_closed, then self.pos
OutTell ==
    /\ op' = OutOp("tell", <<>>)
    /\ calls' = <<>>
    /\ result' = IF out_check_closed(out_closed) THEN ClosedStreamError
                 ELSE Ok(out_pos, <<>>)
    /\ UNCHANGED <<inVars, statVars, adVars, outVars>>

\* size: check_closed, then NotImplemented
OutSize == OutUnsupported("size")

NextWrite ==
    \/ \E data \in SeqsUpTo(MaxData) : OutWrite(data)
    \/ OutFlush
    \/ OutClose
    \/ OutTell
    \/ OutSize
    \/ \E offset \in -MaxOff..MaxOff, whence \in 0..3 : OutSeek(offset, whence)
    \/ \E has_n \in BOOLEAN, n \in -1..(MaxLen + 1) : OutRead(has_n, n)

SpecWrite == InitWrite /\ [][NextWrite]_vars

----------------------------------------------------------------------------
(* DeltaFileSystemHandler::get_file_info.  fs is what the backend answers   *)
(* for each path: list_with_delimiter fails or returns a number of objects  *)
(* and of common prefixes; head returns the object's meta, NotFound or      *)
(* another error.  The store does not change while it is queried.           *)

StatPaths == {"a", "b"}
\* sizes and modification times (in nanoseconds) run from 0 to these
MaxSize == 1
MaxTime == 1
\* the most paths one get_file_info call is given
MaxPaths == 2

ListAnswers ==
    [ok : {FALSE}, objects : {0}, common_prefixes : {0}]
    \cup [ok : {TRUE}, objects : 0..1, common_prefixes : 0..1]

HeadAnswers ==
    [kind : {"NotFound", "Error"}, size : {0}, last_modified : {0}]
    \cup [kind : {"Ok"}, size : 0..MaxSize, last_modified : 0..MaxTime]

InitStat ==
    /\ fs \in [StatPaths -> [list : ListAnswers, head : HeadAnswers]]
    /\ InIdle
    /\ OutIdle
    /\ AdIdle
    /\ op = [name |-> "new", paths |-> <<>>]
    /\ result = [kind |-> "Ok", infos |-> <<>>, err |-> [fn |-> "", path |-> ""]]
    /\ calls = <<>>

\* fs.FileInfo(loc, type_, **kwargs)
to_file_info(loc, type, kwargs) ==
    [path |-> loc, type |-> type, kwargs |-> kwargs]

\* the kwargs of a file's info
FileKwargs(size, mtime_ns) == {<<"size", size>>, <<"mtime_ns", mtime_ns>>}

\* The listing test with one emptiness check standing for both.
ListedIsEmpty_Either(listed) ==
    listed.objects = 0 \/ listed.common_prefixes = 0

\* listed.objects.is_empty() && listed.common_prefixes.is_empty()
ListedIsEmpty(listed) ==
    listed.objects = 0 /\ listed.common_prefixes = 0

\* the call that failed and the path it was made for; NoFailure when none
StatFailure(fn, path) == [fn |-> fn, path |-> path]
NoFailure == StatFailure("", "")

\* an early return that hands back the infos pushed so far
StatErr_KeepInfos(infos, log, fn, path) ==
    [kind |-> "ObjectStore", infos |-> infos, calls |-> log,
     err |-> StatFailure(fn, path)]

\* return Err(from_object_store(err)): the infos pushed so far are dropped
StatErr(infos, log, fn, path) ==
    [kind |-> "ObjectStore", infos |-> <<>>, calls |-> log,
     err |-> StatFailure(fn, path)]

\* The loop of get_file_info over the paths left, with the infos pushed and
\* the backend calls issued so far.  The location of the meta head returns
\* is the path it was asked for.
RECURSIVE StatLoop(_, _, _)
StatLoop(paths, infos, log) ==
    IF paths = <<>>
    THEN [kind |-> "Ok", infos |-> infos, calls |-> log, err |-> NoFailure]
    ELSE LET path == Head(paths)
             listed == fs[path].list
             log1 == Append(log, [fn |-> "list_with_delimiter", path |-> path])
             meta == fs[path].head
             log2 == Append(log1, [fn |-> "head", path |-> path])
         IN IF ~listed.ok
            THEN StatErr(infos, log1, "list_with_delimiter", path)
            ELSE IF ListedIsEmpty(listed)
            THEN CASE meta.kind = "Ok" ->
                        StatLoop(Tail(paths),
                                 Append(infos,
                                        to_file_info(path, "File",
                                            FileKwargs(meta.size,
                                                       meta.last_modified))),
                                 log2)
                   [] meta.kind = "NotFound" ->
                        StatLoop(Tail(paths),
                                 Append(infos,
                                        to_file_info(path, "NotFound", {})),
                                 log2)
                   [] OTHER -> StatErr(infos, log2, "head", path)
            ELSE StatLoop(Tail(paths),
                          Append(infos, to_file_info(path, "Directory", {})),
                          log1)

GetFileInfo(paths) ==
    LET r == StatLoop(paths, <<>>, <<>>)
    IN /\ op' = [name |-> "get_file_info", paths |-> paths]
       /\ result' = [kind |-> r.kind, infos |-> r.infos, err |-> r.err]
       /\ calls' = r.calls
       /\ UNCHANGED <<inVars, outVars, statVars, adVars>>

NextStat ==
    \E paths \in UNION {[1..k -> StatPaths] : k \in 0..MaxPaths} :
        GetFileInfo(paths)

SpecStat == InitStat /\ [][NextStat]_vars

----------------------------------------------------------------------------
(* DeltaFileSystemHandler::get_file_info_selector and normalize_path,       *)
(* specification SpecHandler.  walk_tree answers with a ListResult or an    *)
(* error; a path string is a sequence of the characters "a", "." and "/".   *)

\* the longest path string given to normalize_path
MaxPathLen == 3
PathChars == {"a", ".", "/"}
PathStrings == UNION {[1..k -> PathChars] : k \in 0..MaxPathLen}

ObjectMetas ==
    [location : StatPaths, size : 0..MaxSize, last_modified : 0..MaxTime]

\* walk_tree(store, &path, recursive): the whole listing, or the first
\* listing failure and nothing else.
WalkAnswers ==
    [kind : {"NotFound", "Error"}, common_prefixes : {<<>>}, objects : {<<>>}]
    \cup [kind : {"Ok"},
          common_prefixes : {<<>>} \cup {<<q>> : q \in StatPaths},
          objects : {<<>>} \cup {<<m>> : m \in ObjectMetas}]

InitHandler ==
    /\ InIdle
    /\ OutIdle
    /\ StatIdle
    /\ AdIdle
    /\ op = [name |-> "new"]
    /\ result = [kind |-> "Ok"]
    /\ calls = <<>>

\* The match on walk_tree's result with the NotFound arm taken for every
\* error.
SelectorListResult_AnyError(walk, allow_not_found) ==
    IF walk.kind = "Ok" THEN walk
    ELSE IF allow_not_found
    THEN [kind |-> "Ok", common_prefixes |-> <<>>, objects |-> <<>>]
    ELSE walk

\* The match on walk_tree's result: NotFound becomes the empty ListResult
\* when allow_not_found is set; everything else is passed on.
SelectorListResult(walk, allow_not_found) ==
    CASE walk.kind = "Ok" -> walk
      [] walk.kind = "NotFound" ->
            IF allow_not_found
            THEN [kind |-> "Ok", common_prefixes |-> <<>>, objects |-> <<>>]
            ELSE walk
      [] OTHER -> walk

\* infos: a Directory for each common prefix, then a File for each object
SelectorInfos(list_result) ==
    [i \in 1..Len(list_result.common_prefixes) |->
        to_file_info(list_result.common_prefixes[i], "Directory", {})]
    \o [i \in 1..Len(list_result.objects) |->
        to_file_info(list_result.objects[i].location, "File",
                     FileKwargs(list_result.objects[i].size,
                                list_result.objects[i].last_modified))]

GetFileInfoSelector(base_dir, allow_not_found, recursive) ==
    \E walk \in WalkAnswers :
        LET list_result == SelectorListResult(walk, allow_not_found)
        IN /\ op' = [name |-> "get_file_info_selector", base_dir |-> base_dir,
                     allow_not_found |-> allow_not_found,
                     recursive |-> recursive, walk |-> walk]
           /\ calls' = <<[fn |-> "walk_tree", path |-> base_dir,
                          recursive |-> recursive]>>
           /\ result' = IF list_result.kind = "Ok"
                        THEN [kind |-> "Ok", infos |-> SelectorInfos(list_result),
                              cause |-> "none"]
                        ELSE [kind |-> "ObjectStore", infos |-> <<>>,
                              cause |-> list_result.kind]
           /\ UNCHANGED <<inVars, outVars, statVars, adVars>>

EndsWithSlash(path) == Len(path) > 0 /\ path[Len(path)] = "/"
StartsWithSlash(path) == Len(path) > 0 /\ path[1] = "/"

\* str::split('/')
RECURSIVE Split(_, _)
Split(str, cur) ==
    IF str = <<>> THEN <<cur>>
    ELSE IF Head(str) = "/" THEN <<cur>> \o Split(Tail(str), <<>>)
    ELSE Split(Tail(str), Append(cur, Head(str)))

\* Path::parse: one leading and one trailing separator are stripped; what
\* is left must be empty or made of segments none of which is empty, "." or
\* "..".
PathParse(path) ==
    LET stripped1 == IF StartsWithSlash(path) THEN Tail(path) ELSE path
        stripped == IF EndsWithSlash(stripped1)
                    THEN SubSeq(stripped1, 1, Len(stripped1) - 1)
                    ELSE stripped1
        segments == Split(stripped, <<>>)
    IN IF stripped1 = <<>> THEN [ok |-> TRUE, raw |-> <<>>]
       ELSE IF \E i \in 1..Len(segments) :
                  segments[i] \in {<<>>, <<".">>, <<".", ".">>}
       THEN [ok |-> FALSE, raw |-> <<>>]
       ELSE [ok |-> TRUE, raw |-> stripped]

\* normalize_path: Path::parse(path).unwrap() panics on an error
NormalizePath(path) ==
    LET suffix == IF EndsWithSlash(path) THEN <<"/">> ELSE <<>>
        parsed == PathParse(path)
    IN /\ op' = [name |-> "normalize_path", path |-> path]
       /\ calls' = <<>>
       /\ result' = IF parsed.ok
                    THEN [kind |-> "Ok", path |-> parsed.raw \o suffix]
                    ELSE [kind |-> "Panic", path |-> <<>>]
       /\ UNCHANGED <<inVars, outVars, statVars, adVars>>

\* store.put_multipart(&path): an upload id and a writer, or an error (a
\* WrappedPyArrowStore always answers NotImplemented)
PutMultipartAnswers ==
    [ok : {TRUE}, id : MultipartIds, err : {""}]
    \cup [ok : {FALSE}, id : {""}, err : {"NotImplemented", "Generic"}]

\* ObjectOutputStream::try_new: put_multipart(..).await.unwrap(), then the
\* stream with pos = 0 and closed = false
out_try_new(path, answer) ==
    IF answer.ok
    THEN [kind |-> "Ok",
          stream |-> [path |-> path, multipart_id |-> answer.id, pos |-> 0,
                      closed |-> FALSE, mode |-> "wb"]]
    ELSE [kind |-> "Panic"]

\* open_output_stream(path, metadata): try_new on the store; an Err of
\* try_new would be converted by from_object_store
OpenOutputStream(path, answer) ==
    LET file == out_try_new(path, answer)
    IN /\ op' = [name |-> "open_output_stream", path |-> path,
                 answer |-> answer]
       /\ calls' = <<[fn |-> "put_multipart", path |-> path,
                      ok |-> answer.ok]>>
       /\ result' = IF file.kind = "Err" THEN [kind |-> "ObjectStore"]
                    ELSE file
       /\ UNCHANGED <<inVars, outVars, statVars, adVars>>

NextHandler ==
    \/ \E base_dir \in StatPaths, allow_not_found \in BOOLEAN,
          recursive \in BOOLEAN :
            GetFileInfoSelector(base_dir, allow_not_found, recursive)
    \/ \E path \in PathStrings : NormalizePath(path)
    \/ \E path \in OutPaths, answer \in PutMultipartAnswers :
          OpenOutputStream(path, answer)

SpecHandler == InitHandler /\ [][NextHandler]_vars

----------------------------------------------------------------------------
(* WrappedPyArrowStore: an ObjectStore over a foreign pyarrow filesystem.  *)
(* The foreign filesystem is the environment: each foreign call either     *)
(* returns or raises a Python exception.  calls lists the foreign calls a  *)
(* method made, in order.                                                  *)

AdPaths == {"p", "q"}
AdBytes == {<<>>, <<1, 2>>}
\* the size asked of each foreign read; stands for 5 * 1024 * 1024
ReadSize == 1
MaxWorkers == 2
MaxSteps == 1
\* divisor and modulus applied to mtime_ns
SecondsDivisor == 1000000
NanosModulus == 1000000
MtimeNsValues == {0, 1, 999999, 1000000, 1500000000}

\* a foreign call that returned
Returned == [raised |-> FALSE]
\* a Python exception raised by a foreign call
PyErrs ==
    [raised : {TRUE}, is_file_not_found : BOOLEAN,
     is_not_implemented : BOOLEAN, cause : {"e1", "e2"}]
\* the FileInfo returned by the foreign get_file_info
ForeignInfos ==
    [raised : {FALSE}, has_mtime_ns : {TRUE}, mtime_ns : MtimeNsValues,
     mtime : {0}, size : 0..MaxSize]
    \cup [raised : {FALSE}, has_mtime_ns : {FALSE}, mtime_ns : {0},
          mtime : 0..MaxTime, size : 0..MaxSize]

StoreNotFound(path, source) ==
    [kind |-> "NotFound", path |-> path, source |-> source]
StoreNotImplemented == [kind |-> "NotImplemented"]
StoreGeneric(source) ==
    [kind |-> "Generic", store |-> "pyarrow", source |-> source]

\* a translation that wraps every exception as Generic
store_error_from_python_generic(path, py_error) == StoreGeneric(py_error)

\* store_error_from_python.  The wrapped store is a pyarrow object, so the
\* import of pyarrow and the lookup of ArrowNotImplementedError succeed.
store_error_from_python(path, py_error) ==
    IF py_error.is_file_not_found THEN StoreNotFound(path, py_error)
    ELSE IF py_error.is_not_implemented THEN StoreNotImplemented
    ELSE StoreGeneric(py_error)

ForeignCall(fn, answer) == [fn |-> fn, raised |-> answer.raised]

AdOp(name, path, answers) ==
    [name |-> name, path |-> path, answers |-> answers,
     pre_pos |-> in_stream.pos, pre_len |-> in_stream.len]

InitAdapter ==
    /\ InIdle
    /\ OutIdle
    /\ StatIdle
    /\ in_stream = NoStream
    /\ reading = FALSE
    /\ workers \in 1..MaxWorkers
    /\ other_steps = 0
    /\ op = AdOp("new", "", <<>>)
    /\ result = [kind |-> "Ok"]
    /\ calls = <<>>

\* put: open_output_stream, write, close; the first exception ends the
\* method (fail_at = 0: none of the three raises)
AdPut(location, bytes, fail_at, err) ==
    LET path == location
        names == <<"open_output_stream", "write", "close">>
        made == IF fail_at = 0 THEN 3 ELSE fail_at
        answers == [i \in 1..made |-> IF i = fail_at THEN err ELSE Returned]
    IN /\ ~reading
       /\ op' = AdOp("put", path, answers)
       /\ calls' = [i \in 1..made |-> ForeignCall(names[i], answers[i])]
       /\ result' = IF fail_at # 0 THEN store_error_from_python(path, err)
                    ELSE [kind |-> "Ok"]
       /\ UNCHANGED <<inVars, outVars, statVars, adVars>>

\* head: get_file_info, then the timestamp conversion
AdHead(location, answer) ==
    LET path == location
        seconds == answer.mtime_ns \div SecondsDivisor
        nanoseconds == answer.mtime_ns % NanosModulus
    IN /\ ~reading
       /\ op' = AdOp("head", path, <<answer>>)
       /\ calls' = <<ForeignCall("get_file_info", answer)>>
       /\ result' =
            IF answer.raised THEN store_error_from_python(path, answer)
            ELSE IF ~answer.has_mtime_ns
            THEN [kind |-> "Ok", location |-> path, seconds |-> answer.mtime,
                  nanoseconds |-> 0, size |-> answer.size]
            ELSE [kind |-> "Ok", location |-> path, seconds |-> seconds,
                  nanoseconds |-> nanoseconds, size |-> answer.size]
       /\ UNCHANGED <<inVars, outVars, statVars, adVars>>

\* get: open_input_stream; the chunk sequence is built but not yet polled.
\* len is the length of the foreign file behind the stream.
AdGet(location, answer, len) ==
    LET path == location
    IN /\ ~reading
       /\ op' = AdOp("get", path, <<answer>>)
       /\ calls' = <<ForeignCall("open_input_stream", answer)>>
       /\ result' = IF answer.raised
                    THEN store_error_from_python(path, answer)
                    ELSE [kind |-> "Ok"]
       /\ in_stream' = IF answer.raised THEN in_stream
                       ELSE [open |-> TRUE, path |-> path, len |-> len,
                             pos |-> 0]
       /\ UNCHANGED <<inVars, outVars, statVars, reading, workers,
                      other_steps>>

\* the poll closure is entered: it starts the foreign read on the thread
\* that polls, inside block_on
AdPollBegin ==
    /\ in_stream.open
    /\ ~reading
    /\ reading' = TRUE
    /\ op' = AdOp("poll_begin", in_stream.path, <<>>)
    /\ calls' = <<>>
    /\ result' = [kind |-> "Running"]
    /\ UNCHANGED <<inVars, outVars, statVars, in_stream, workers,
                   other_steps>>

\* the foreign read(ReadSize) returns or raises and the closure returns
\* what it gave: always an item, also when the chunk is empty
AdPollEnd(answer) ==
    LET n == Min(ReadSize, in_stream.len - in_stream.pos)
        chunk == SubSeq(Body(in_stream.len), in_stream.pos + 1,
                        in_stream.pos + n)
    IN /\ reading
       /\ reading' = FALSE
       /\ op' = AdOp("poll", in_stream.path, <<answer>>)
       /\ calls' = <<ForeignCall("read", answer)>>
       /\ result' = IF answer.raised
                    THEN store_error_from_python(in_stream.path, answer)
                    ELSE [kind |-> "Ready", some |-> TRUE, bytes |-> chunk]
       /\ in_stream' = IF answer.raised THEN in_stream
                       ELSE [in_stream EXCEPT !.pos = @ + n]
       /\ UNCHANGED <<inVars, outVars, statVars, workers, other_steps>>

\* an unrelated task of the runtime takes a step.  While the foreign read
\* runs, the polling worker thread is inside it; another task runs only on
\* another worker.
AdOtherTask ==
    /\ reading => workers > 1
    /\ other_steps' = (other_steps + 1) % (MaxSteps + 1)
    /\ UNCHANGED <<inVars, outVars, statVars, in_stream, reading, workers,
                   op, result, calls>>

NextAdapter ==
    \/ \E location \in AdPaths, bytes \in AdBytes, fail_at \in 0..3,
          err \in PyErrs : AdPut(location, bytes, fail_at, err)
    \/ \E location \in AdPaths, answer \in PyErrs \cup ForeignInfos :
          AdHead(location, answer)
    \/ \E location \in AdPaths, answer \in PyErrs \cup {Returned},
          len \in 0..MaxLen : AdGet(location, answer, len)
    \/ AdPollBegin
    \/ \E answer \in PyErrs \cup {Returned} : AdPollEnd(answer)
    \/ AdOtherTask

SpecAdapter == InitAdapter /\ [][NextAdapter]_vars

----------------------------------------------------------------------------
(* Claims about ObjectInputFile, checked under SpecRead.  Each is a         *)
(* predicate on the state a call leaves: op holds the call and the fields   *)
(* of the handle when the call was entered.                                 *)

\* The position a seek asks for: offset from the start, from the cursor at
\* entry, or from the end.
C_SeekTarget ==
    CASE op.whence = 0 -> op.offset
      [] op.whence = 1 -> op.pre_pos + op.offset
      [] op.whence = 2 -> op.pre_len + op.offset

C_OpenSeek == op.name = "seek" /\ ~op.pre_closed /\ op.whence \in 0..2

\* C1: on an open handle, a seek whose resulting position lies outside
\* [0, content_length] fails with InvalidSeek.
C1_SeekOutsideFails ==
    (C_OpenSeek /\ C_SeekTarget \notin 0..op.pre_len) => result = InvalidSeek

\* C2: on an open handle, a seek relative to the cursor or to the end whose
\* resulting position lies in [0, content_length] succeeds, stores that
\* position and returns it.
C2_RelativeSeekSucceeds ==
    (C_OpenSeek /\ op.whence \in {1, 2} /\ C_SeekTarget \in 0..op.pre_len)
        => /\ result = Ok(C_SeekTarget, <<>>)
           /\ in_pos = C_SeekTarget

\* The number of bytes C3 expects of a read entered at cursor pre_pos.
C_ReadCount ==
    IF op.has_n THEN Min(op.n, op.pre_len - op.pre_pos)
    ELSE op.pre_len - op.pre_pos

\* C3: on an open handle with cursor c, whatever calls came before, read(n)
\* whose range fetch does not fail returns the min(n, N - c) bytes at c and
\* advances the cursor by as many; read() returns the N - c bytes left.
\* (Stated for n >= 0 and c >= 0 only, the cases in which the claim's byte
\* count can be read as a count at all.)
C3_ReadReturnsClampedRange ==
    (/\ op.name = "read"
     /\ ~op.pre_closed
     /\ op.has_n => op.n >= 0
     /\ op.pre_pos >= 0
     /\ result.kind # "ObjectStore")
        => /\ result.kind = "Ok"
           /\ Len(result.bytes) = C_ReadCount
           /\ result.bytes = SubSeq(Body(op.pre_len), op.pre_pos + 1,
                                    op.pre_pos + C_ReadCount)
           /\ in_pos = op.pre_pos + C_ReadCount

\* C3 restricted to cursors in [0, content_length]: there the read is as C3
\* says.
C3_InRangeReadReturnsClampedRange ==
    (op.name = "read" /\ op.pre_pos \in 0..op.pre_len)
        => C3_ReadReturnsClampedRange

C_InUnchanged ==
    /\ in_pos = op.pre_pos
    /\ content_length = op.pre_len
    /\ in_closed = op.pre_closed

\* C18: after every call the cursor lies within 0..content_length and
\* content_length is the value fetched at construction.
C18_CursorWithinBounds ==
    /\ in_pos >= 0
    /\ in_pos <= content_length
    /\ content_length = op.pre_len

\* C22: a read whose range fetch fails at the backend returns the error and
\* leaves the cursor where it was.
C22_FailedReadKeepsCursor ==
    (/\ op.name = "read"
     /\ op.pre_pos \in 0..op.pre_len
     /\ calls # <<>>
     /\ result = ObjectStoreErr)
        => in_pos = op.pre_pos

\* C9 as stated: on a closed handle every call other than close fails with
\* ClosedStreamError and changes nothing; close succeeds and changes nothing.
C9_ClosedFailsEveryCall ==
    op.pre_closed =>
        /\ C_InUnchanged
        /\ IF op.name = "close" THEN result = OkUnit
           ELSE result = ClosedStreamError

\* C9 amended: on a closed handle seek, read, tell and size fail with
\* ClosedStreamError; fileno, truncate, readline and readlines fail with
\* NotImplemented and isatty, readable, seekable and writable answer, as on
\* an open handle; close succeeds; none of them changes the handle, which
\* stays closed.
C9_ClosedIsTerminal ==
    op.pre_closed =>
        /\ C_InUnchanged
        /\ in_closed
        /\ calls = <<>>
        /\ op.name \in {"seek", "read", "tell", "size"}
              => result = ClosedStreamError
        /\ op.name \in InUnsupportedOps => result = NotImplementedError
        /\ op.name \in InQueryOps => result = Ok(InQueryValue(op.name), <<>>)
        /\ op.name = "close" => result = OkUnit

\* A read with a length is refused on a closed handle whose cursor is not 0.
C9_Witness ==
    /\ op.pre_closed
    /\ op.name = "read"
    /\ op.has_n
    /\ op.pre_pos > 0
    /\ result = ClosedStreamError

----------------------------------------------------------------------------
(* Claims about ObjectOutputStream, checked under SpecWrite. *)

\* The last call reached the writer and the writer failed.
C_WriterFailed == Len(calls) >= 1 /\ ~calls[1].ok

C_IsAbort(c) ==
    c.fn = "abort_multipart" /\ c.path = out_path /\ c.id = multipart_id

\* C4: a write that fails at the backend issues abort_multipart for the
\* stream's path and upload id after the failed write_all and before it
\* returns, it returns an error, and no object is stored at the path.
C4_FailedWriteAborts ==
    (op.name = "write" /\ C_WriterFailed)
        => /\ Len(calls) = 2
           /\ calls[1].fn = "write_all"
           /\ C_IsAbort(calls[2])
           /\ result.kind # "Ok"
           /\ ~store[out_path].exists

\* A write of two bytes failed after the session had taken bytes, and the
\* abort removed the session.
C4_Witness ==
    /\ op.name = "write"
    /\ Len(op.data) = 2
    /\ C_WriterFailed
    /\ Len(parts) > 0
    /\ op.pre_session = "open"
    /\ session = "aborted"

\* C5: once a write, flush or close has failed, every later write (of at
\* least one byte), flush and close fails, and none of them hands bytes or a
\* commit to the writer.
C5_AbortedNeverResumes ==
    (/\ op.pre_failed
     /\ op.name \in {"write", "flush", "close"}
     /\ op.name = "write" => Len(op.data) > 0)
        => /\ result.kind # "Ok"
           /\ \A i \in 1..Len(calls) : calls[i].fn \notin {"write_all", "shutdown"}

\* C6: when a write, flush or close fails and abort_multipart fails too,
\* the error returned is the writer's.
C6_OriginalErrorKept ==
    (/\ op.name \in {"write", "flush", "close"}
     /\ C_WriterFailed
     /\ Len(calls) = 2
     /\ ~calls[2].ok)
        => result = IoErr

\* C7: while nothing has failed, each write returns the length of its
\* argument, the session holds the arguments of the writes in call order,
\* and the first close, when it succeeds, stores their concatenation.
C7_CommittedBodyIsConcatenation ==
    /\ (op.name = "write" /\ result.kind = "Ok") => result.num = Len(op.data)
    /\ (~failed /\ session = "open") => parts = written
    /\ (op.name = "close" /\ ~op.pre_closed /\ ~failed /\ result.kind = "Ok")
          => store[out_path] = Object(written)

\* Two or more writes, 1 2 then 1 among them, were committed by close.
C7_Witness ==
    /\ op.name = "close"
    /\ ~op.pre_closed
    /\ ~failed
    /\ result.kind = "Ok"
    /\ written = <<1, 2, 1>>
    /\ store[out_path] = Object(<<1, 2, 1>>)

\* C8: close after a successful close succeeds, issues no backend call and
\* leaves the store as it was.
C8_SecondCloseIsNoOp ==
    (op.name = "close" /\ op.pre_closed /\ op.pre_session = "committed")
        => /\ result = OkUnit
           /\ calls = <<>>
           /\ store = op.pre_store

\* C17 as stated: read and seek fail with NotImplemented in every state
\* of the stream.
C17_ReadSeekAlwaysNotImplemented ==
    op.name \in {"seek", "read"} => result = NotImplementedError

\* C17 amended: read and seek fail with NotImplemented while close has not
\* been called (the stream is open, or a write or flush failed), and with
\* the closed-stream error once it has; they issue no backend call and
\* change nothing.
C17_ReadSeekNotImplementedUntilClosed ==
    op.name \in {"seek", "read"} =>
        /\ result = IF op.pre_closed THEN ClosedStreamError
                    ELSE NotImplementedError
        /\ calls = <<>>
        /\ out_closed = op.pre_closed
        /\ session = op.pre_session
        /\ store = op.pre_store
        /\ failed = op.pre_failed

\* seek was refused as not implemented on a stream whose session a failed
\* write had aborted.
C17_Witness ==
    /\ op.name = "seek"
    /\ op.pre_failed
    /\ op.pre_session = "aborted"
    /\ ~op.pre_closed
    /\ result = NotImplementedError

\* C19: on a committed stream write and flush fail as calls on a closed
\* stream and issue no backend call.
C19_CommittedRefusesWriteFlush ==
    (op.pre_session = "committed" /\ op.name \in {"write", "flush"})
        => /\ result = ClosedStreamError
           /\ calls = <<>>

C_Issued(fn) == \E i \in 1..Len(calls) : calls[i].fn = fn

\* C20: no abort_multipart is issued for a session that is committed or
\* already aborted, and no commit is attempted for an aborted session.
C20_OneTerminalState ==
    op.name \in {"write", "flush", "close"} =>
        /\ op.pre_session = "committed" => ~C_Issued("abort_multipart")
        /\ op.pre_session = "aborted" =>
              (~C_Issued("abort_multipart") /\ ~C_Issued("shutdown"))

\* C23: on an open stream tell returns the number of bytes accepted by the
\* successful writes so far.
C23_TellCountsAcceptedBytes ==
    (op.name = "tell" /\ ~op.pre_closed /\ op.pre_session = "open")
        => result = Ok(Len(written), <<>>)

----------------------------------------------------------------------------
(* Claims about get_file_info, checked under SpecStat. *)

C_Listed(p) == fs[p].list.ok
C_ListedAny(p) == fs[p].list.objects > 0 \/ fs[p].list.common_prefixes > 0

\* What C10 says the info of path p is, when it says there is one.
C_Expected(p) ==
    IF C_ListedAny(p)
    THEN [path |-> p, type |-> "Directory", kwargs |-> {}]
    ELSE IF fs[p].head.kind = "Ok"
    THEN [path |-> p, type |-> "File",
          kwargs |-> {<<"size", fs[p].head.size>>,
                      <<"mtime_ns", fs[p].head.last_modified>>}]
    ELSE [path |-> p, type |-> "NotFound", kwargs |-> {}]

\* the listing of p is empty and its point lookup fails other than NotFound
C_LookupFails(p) ==
    C_Listed(p) /\ ~C_ListedAny(p) /\ fs[p].head.kind = "Error"

\* C10: a path whose listing has an object or a common prefix is a
\* Directory, even when head would find an object; otherwise it is a File
\* with the size and mtime head returns, or NotFound when head fails with
\* NotFound; a head that fails otherwise makes the call fail.
C10_StatClassifies ==
    op.name = "get_file_info" =>
        /\ result.kind = "Ok" =>
              /\ Len(result.infos) = Len(op.paths)
              /\ \A i \in 1..Len(op.paths) :
                    /\ ~C_LookupFails(op.paths[i])
                    /\ result.infos[i] = C_Expected(op.paths[i])
        /\ (\A i \in 1..Len(op.paths) : C_Listed(op.paths[i]))
              => (result.kind = "Ok"
                    <=> \A i \in 1..Len(op.paths) : ~C_LookupFails(op.paths[i]))

\* Two paths were classified: a Directory that shadows an object head would
\* find, listed through common prefixes alone, and a File.
C10_Witness ==
    /\ op.name = "get_file_info"
    /\ result.kind = "Ok"
    /\ Len(op.paths) = 2
    /\ result.infos[1].type = "Directory"
    /\ fs[op.paths[1]].head.kind = "Ok"
    /\ fs[op.paths[1]].list.objects = 0
    /\ result.infos[2].type = "File"
    /\ result.infos[2].kwargs = {<<"size", 1>>, <<"mtime_ns", 1>>}

\* the stat of path p fails: its listing fails, or its listing is empty
\* and its point lookup fails other than NotFound
C_StatFails(p) == ~C_Listed(p) \/ C_LookupFails(p)

\* the positions of op.paths whose stat fails
C_Failing == {i \in 1..Len(op.paths) : C_StatFails(op.paths[i])}

C_IsList(c) == c.fn = "list_with_delimiter"

\* the paths listed by the call, in the order of the calls
C_ListedPaths ==
    LET lists == SelectSeq(calls, C_IsList)
    IN [i \in 1..Len(lists) |-> lists[i].path]

\* C21: get_file_info queries the paths in input order.  When the stat of
\* some path fails it returns the error of the first such path with no
\* infos and has queried no path after it; when none fails it returns one
\* info per path, in input order.
C21_FirstErrorAborts ==
    op.name = "get_file_info" =>
        IF C_Failing = {}
        THEN /\ result.kind = "Ok"
             /\ Len(result.infos) = Len(op.paths)
             /\ \A i \in 1..Len(op.paths) : result.infos[i].path = op.paths[i]
             /\ C_ListedPaths = op.paths
        ELSE LET k == CHOOSE i \in C_Failing : \A j \in C_Failing : i <= j
             IN /\ result.kind = "ObjectStore"
                /\ result.infos = <<>>
                /\ result.err.path = op.paths[k]
                /\ result.err.fn = IF C_Listed(op.paths[k]) THEN "head"
                                   ELSE "list_with_delimiter"
                /\ C_ListedPaths = SubSeq(op.paths, 1, k)
                /\ calls[Len(calls)] = result.err

\* The first of two different paths was classified and the point lookup of
\* the second failed: the call failed with that error and no infos.
C21_Witness ==
    /\ op.name = "get_file_info"
    /\ Len(op.paths) = 2
    /\ op.paths[1] # op.paths[2]
    /\ ~C_StatFails(op.paths[1])
    /\ C_LookupFails(op.paths[2])
    /\ result.kind = "ObjectStore"
    /\ result.infos = <<>>
    /\ result.err = [fn |-> "head", path |-> op.paths[2]]

----------------------------------------------------------------------------
(* Claims about get_file_info_selector and normalize_path, checked under    *)
(* SpecHandler.                                                             *)

\* C11: when the walk fails with NotFound the call returns no infos and no
\* error if allow_not_found is set and fails with NotFound otherwise; any
\* other walk failure fails the call whatever allow_not_found is; a failed
\* call returns no infos.
C11_SelectorNotFoundPolicy ==
    op.name = "get_file_info_selector" =>
        /\ (op.walk.kind = "NotFound" /\ op.allow_not_found)
              => result = [kind |-> "Ok", infos |-> <<>>, cause |-> "none"]
        /\ (op.walk.kind = "NotFound" /\ ~op.allow_not_found)
              => (result.kind = "ObjectStore" /\ result.cause = "NotFound")
        /\ op.walk.kind = "Error"
              => (result.kind = "ObjectStore" /\ result.cause = "Error")
        /\ result.kind # "Ok" => result.infos = <<>>
        /\ op.walk.kind = "Ok" => result.kind = "Ok"

\* A walk that failed other than NotFound, with allow_not_found set, failed
\* the call.
C11_Witness ==
    /\ op.name = "get_file_info_selector"
    /\ op.walk.kind = "Error"
    /\ op.allow_not_found
    /\ result.kind = "ObjectStore"
    /\ result.cause = "Error"

\* C16: normalize_path fails with InvalidPath on a path Path::parse
\* rejects; on any other path it returns the parsed path, with a trailing
\* separator exactly when the input ends with one.
C16_NormalizeInvalidPath ==
    op.name = "normalize_path" =>
        IF PathParse(op.path).ok
        THEN /\ result.kind = "Ok"
             /\ EndsWithSlash(result.path) <=> EndsWithSlash(op.path)
        ELSE result.kind = "InvalidPath"

\* C16 on the paths Path::parse accepts only.
C16_ValidPathsNormalize ==
    (op.name = "normalize_path" /\ PathParse(op.path).ok)
        => C16_NormalizeInvalidPath

\* C24: when the backend fails to create the multipart session,
\* open_output_stream returns an error: it neither panics nor returns a
\* stream.
C24_OpenWriteReturnsError ==
    (op.name = "open_output_stream" /\ ~op.answer.ok)
        => result.kind = "ObjectStore"

----------------------------------------------------------------------------
(* Claims about WrappedPyArrowStore, checked under SpecAdapter. *)

\* C12: head keeps the instant of the foreign modification time: with
\* mtime_ns = t it returns t div 10^9 seconds and t mod 10^9 nanoseconds,
\* without mtime_ns it returns mtime seconds and zero nanoseconds.
C12_HeadKeepsInstant ==
    (op.name = "head" /\ ~op.answers[1].raised) =>
        LET info == op.answers[1]
        IN /\ result.kind = "Ok"
           /\ IF info.has_mtime_ns
              THEN /\ result.seconds = info.mtime_ns \div 1000000000
                   /\ result.nanoseconds = info.mtime_ns % 1000000000
              ELSE /\ result.seconds = info.mtime
                   /\ result.nanoseconds = 0

\* C13: a poll that finds the foreign handle exhausted signals the end of
\* the chunk sequence.
C13_ExhaustedSignalsEnd ==
    (op.name = "poll" /\ ~op.answers[1].raised /\ op.pre_pos = op.pre_len)
        => (result.kind = "Ready" /\ ~result.some)

\* C14: while a foreign read is in progress an unrelated task of the
\* runtime can take a step.
C14_ReadDoesNotStarve == reading => ENABLED AdOtherTask

C_Raised(i) == i \in 1..Len(op.answers) /\ op.answers[i].raised

C_Translated(path, e) ==
    IF e.is_file_not_found
    THEN [kind |-> "NotFound", path |-> path, source |-> e]
    ELSE IF e.is_not_implemented
    THEN [kind |-> "NotImplemented"]
    ELSE [kind |-> "Generic", store |-> "pyarrow", source |-> e]

\* C15: put, get, a poll of get's chunk sequence and head succeed only when
\* no foreign call raised; otherwise they return the translation of the
\* exception raised: NotFound with the requested path for a not-found
\* error, else NotImplemented for a not-implemented error, else Generic
\* carrying the exception.
C15_ErrorTranslation ==
    op.name \in {"put", "get", "poll", "head"} =>
        /\ (\A i \in 1..Len(op.answers) : ~C_Raised(i))
              => result.kind \in {"Ok", "Ready"}
        /\ \A i \in 1..Len(op.answers) :
              C_Raised(i) => result = C_Translated(op.path, op.answers[i])

\* put returned NotFound for the requested path because close raised a
\* not-found error after open_output_stream and write had returned.
C15_Witness ==
    /\ op.name = "put"
    /\ Len(op.answers) = 3
    /\ C_Raised(3)
    /\ op.answers[3].is_file_not_found
    /\ result.kind = "NotFound"
    /\ result.path = op.path
    /\ result.source = op.answers[3]

====
